---- MODULE Spec2Model ----
(***************************************************************************)
(* Request/response model of the Beluva route handlers: the relational     *)
(* store (schema and row-level policies), the object store, the provider   *)
(* adapter and the handlers of the recommendation, visualization, catalog  *)
(* and placement-metadata routes.  Every handler is one action; the        *)
(* outcome of every outbound call (store, object store, AI provider) is an *)
(* input of the action.                                                    *)
(***************************************************************************)
EXTENDS Integers, Sequences, FiniteSets, TLC

\* ---------------------------------------------------------------- bounds
MaxSessions == 2
MaxFurniture == 2
MaxPlacements == 2
MaxTextLen == 3
MaxUploads == 2
MaxPathLen == 2
MaxHops == 2

\* ------------------------------------------------------------- principals
Anon == "anon"
Users == {"u1", "adm"}
Callers == Users \cup {Anon}

\* AuthProvider starts with the mock user (useMockUser is true)
mockUser == "test"

\* public.users: one row per user, is_admin BOOLEAN DEFAULT false
users == [u \in Users \cup {"u2"} |-> [id |-> u, is_admin |-> (u = "adm")]]

ImageIds == {"i1", "i2", "i9"}
FurnIds == 1..MaxFurniture
NullUrl == <<>>

VARIABLES
  rls,                          \* row-level policies of the schema are in force
  user,                         \* the browser's AuthProvider state 'user'
  room_images,                  \* public.room_images
  room_uploads,                 \* objects of the 'room-uploads' bucket
  upload_seq,                   \* number of upload file names issued so far
  furniture_items,              \* public.furniture_items
  furniture_seq,                \* number of furniture ids issued so far
  user_sessions,                \* public.user_sessions, in insertion order
  furniture_placement_metadata, \* public.furniture_placement_metadata
  placement_seq,                \* number of placement ids issued so far
  generated_rooms,              \* objects of the 'generated-rooms' bucket
  lastPut,                      \* the latest placement PUT that succeeded
  last                          \* the last request and its response

tables == <<room_images, room_uploads, upload_seq, furniture_items, furniture_seq, user_sessions,
            furniture_placement_metadata, placement_seq, generated_rooms,
            lastPut>>
vars == <<rls, user, room_images, room_uploads, upload_seq, furniture_items, furniture_seq, user_sessions,
          furniture_placement_metadata, placement_seq, generated_rooms,
          lastPut, last>>

\* ------------------------------------------------------ request / response
NoResp ==
  [op |-> "none", caller |-> Anon, status |-> 0,
   room_image_id |-> "", furniture_ids |-> {}, target |-> 0,
   allExist |-> FALSE, imageOwner |-> "", referenced |-> FALSE,
   lookupFailed |-> FALSE,
   aiCalled |-> FALSE, selector |-> "", endpoint |-> "", http |-> "",
   threw |-> FALSE, imageUrl |-> "", uploadFailed |-> FALSE,
   sessionFailed |-> FALSE, env |-> "", defined |-> FALSE, isAdmin |-> FALSE,
   path |-> "", code |-> "", hadObject |-> FALSE, file |-> "",
   raised |-> "", unhandled |-> FALSE,
   admin |-> "", delPc |-> "", delStatus |-> 0, visPc |-> "", visStatus |-> 0,
   generatedImage |-> NullUrl, isGenerating |-> FALSE, mock |-> FALSE,
   email |-> "", calls |-> <<>>, success |-> FALSE, error |-> "",
   pathname |-> <<>>, matched |-> FALSE, location |-> <<>>, hops |-> 0,
   nodeEnv |-> "", parsed |-> "",
   url |-> NullUrl, session_id |-> 0, hasRecs |-> FALSE, recs |-> <<>>,
   rows |-> {}, body |-> <<>>, kind |-> "", sessionOwner |-> "",
   repeat |-> FALSE, tableAfterFirst |-> {}, before |-> {}, wrote |-> {}]

NoPut == [valid |-> FALSE, body |-> <<>>, table |-> {}]

\* no request is being handled
Idle == last = NoResp

\* the response leaves the handler (return NextResponse.json(...))
SendResponse ==
  /\ ~Idle
  /\ last' = NoResp
  /\ UNCHANGED <<rls, user, tables>>

\* names of the stores whose contents the request changed
Changed ==
  {t \in {"room_images"} : room_images' # room_images}
  \cup {t \in {"room_uploads"} : room_uploads' # room_uploads}
  \cup {t \in {"furniture_items"} : furniture_items' # furniture_items}
  \cup {t \in {"user_sessions"} : user_sessions' # user_sessions}
  \cup {t \in {"furniture_placement_metadata"} :
          furniture_placement_metadata' # furniture_placement_metadata}
  \cup {t \in {"generated_rooms"} : generated_rooms' # generated_rooms}

\* a response that leaves every store as it was
Reply(r, code) ==
  /\ UNCHANGED <<rls, user, tables>>
  /\ last' = [r EXCEPT !.status = code]

\* a handler without its try/catch: the exception leaves the handler
CatchAll_Rethrow(r, what) ==
  [r EXCEPT !.raised = what, !.unhandled = TRUE, !.status = 0]

\* the catch block that closes every handler: whatever was raised inside the
\* try becomes a 500 response with the error's message
CatchAll(r, what) == [r EXCEPT !.raised = what, !.status = 500]

\* an exception raised before anything was written
Throw(r, what) ==
  /\ UNCHANGED <<rls, user, tables>>
  /\ last' = CatchAll(r, what)

\* ------------------------------------------------------------------ store
\* .single(): exactly one row, otherwise an error
Single(rows) ==
  IF Cardinality(rows) = 1
    THEN [error |-> FALSE, data |-> rows]
    ELSE [error |-> TRUE, data |-> {}]

Row(res) == CHOOSE r \in res.data : TRUE

\* SELECT policy "Users can read their own room images"
SelectRoomImages(uid) ==
  IF rls THEN {r \in room_images : r.user_id = uid} ELSE room_images

\* SELECT policy "Users can read their own sessions"
SelectUserSessions(uid) ==
  LET all == {user_sessions[i] : i \in 1..Len(user_sessions)}
  IN IF rls THEN {s \in all : s.user_id = uid} ELSE all

\* SELECT policy "All users can read furniture items"
SelectFurnitureItems(uid) == furniture_items

SessionOwner(id) ==
  IF id \in 1..Len(user_sessions) THEN user_sessions[id].user_id ELSE ""

ImageOwner(id) ==
  IF \E r \in room_images : r.id = id
    THEN (CHOOSE r \in room_images : r.id = id).user_id
    ELSE ""

\* ------------------------------------------------------- provider adapter
EnvValues == {"", "openai", "gemini", "bogus"}
HttpOutcomes == {"network", "non2xx", "badjson", "nodata", "nofield", "ok"}

getCurrentProvider(env) ==
  LET provider == IF env = "" THEN "openai" ELSE env
  IN IF provider \in {"openai", "gemini"} THEN provider ELSE "openai"

\* an adapter that answers with a URL whatever the call's outcome
openAIService_generateImage_Swallow(http) ==
  [threw |-> FALSE, imageUrl |-> "dalle", provider |-> "openai",
   endpoint |-> "openai/images/generations"]

\* one POST to api.openai.com/v1/images/generations; http is its outcome
openAIService_generateImage(http) ==
  IF http = "ok"
    THEN [threw |-> FALSE, imageUrl |-> "dalle", provider |-> "openai",
          endpoint |-> "openai/images/generations"]
  ELSE IF http = "nofield"
    THEN [threw |-> FALSE, imageUrl |-> "", provider |-> "openai",
          endpoint |-> "openai/images/generations"]
  ELSE [threw |-> TRUE, imageUrl |-> "", provider |-> "openai",
        endpoint |-> "openai/images/generations"]

\* a Gemini adapter that rejects image generation instead of delegating
geminiService_generateImage_Unsupported(http) ==
  [openAIService_generateImage(http) EXCEPT
     !.threw = TRUE, !.imageUrl = "", !.endpoint = ""]

geminiService_generateImage(http) == openAIService_generateImage(http)

llmService_generateImage(env, http) ==
  IF getCurrentProvider(env) = "openai"
    THEN openAIService_generateImage(http)
    ELSE geminiService_generateImage(http)

\* ------------------------------------------ POST /api/generate-room-visual
RoomVisualizationRequestSchema(body) ==
  /\ body.room_image_id \in ImageIds
  /\ body.furniture_item_ids # {}

VisualBodies ==
  [json : {TRUE}, room_image_id : ImageIds, furniture_item_ids : SUBSET FurnIds]
  \cup [json : {FALSE}, room_image_id : {""}, furniture_item_ids : {{}}]

getPublicUrl(bucket, path) == <<bucket>> \o path

\* a handler that answers 500 when the upsert fails
SessionErrorIsFatal_Strict(sessionError) == sessionError

\* if (sessionError) { log } and continue: the upsert's error ends nothing
SessionErrorIsFatal(sessionError) == FALSE

POST_generate_room_visual ==
  /\ Idle
  /\ Len(user_sessions) < MaxSessions
  /\ Cardinality(generated_rooms) < MaxSessions
  /\ \E caller \in Callers, body \in VisualBodies :
      LET req0 == [NoResp EXCEPT !.op = "generate-room-visual", !.caller = caller]
          req == [req0 EXCEPT
                    !.room_image_id = body.room_image_id,
                    !.furniture_ids = body.furniture_item_ids,
                    !.imageOwner = ImageOwner(body.room_image_id),
                    !.allExist = \A f \in body.furniture_item_ids :
                                   \E it \in furniture_items : it.id = f]
      IN
      IF caller = Anon THEN Reply(req0, 401)
      ELSE IF ~body.json THEN Throw(req0, "body")
      ELSE IF ~RoomVisualizationRequestSchema(body) THEN Reply(req0, 400)
      ELSE \E roomFail \in BOOLEAN :
        LET roomImage ==
              Single({r \in SelectRoomImages(caller) : r.id = body.room_image_id})
        IN
        IF roomFail \/ roomImage.error
          THEN Reply([req EXCEPT !.lookupFailed = roomFail], 404)
        ELSE IF Row(roomImage).user_id # caller THEN Reply(req, 403)
        ELSE \E furnFail \in BOOLEAN :
          IF furnFail THEN Reply(req, 500)
          ELSE \E env \in EnvValues, http \in HttpOutcomes :
            LET gen == llmService_generateImage(env, http)
                areq == [req EXCEPT !.aiCalled = TRUE,
                           !.selector = getCurrentProvider(env),
                           !.endpoint = gen.endpoint, !.http = http,
                           !.threw = gen.threw, !.imageUrl = gen.imageUrl]
            IN
            IF gen.threw THEN Throw(areq, "provider")
            ELSE IF gen.imageUrl = "" THEN Reply(areq, 500)
            ELSE \E fetchFail \in BOOLEAN, uploadError \in BOOLEAN :
              \* fetch or arrayBuffer threw; the response's status is not read
              IF fetchFail THEN Throw(areq, "download")
              ELSE IF uploadError
                THEN Reply([areq EXCEPT !.uploadFailed = TRUE], 500)
              ELSE
                LET filePath == <<caller, Cardinality(generated_rooms) + 1>>
                    visualizationUrl == getPublicUrl("generated-rooms", filePath)
                    row == [id |-> Len(user_sessions) + 1,
                            user_id |-> caller,
                            uploaded_image_id |-> body.room_image_id,
                            selected_furniture_ids |-> body.furniture_item_ids,
                            generated_image_url |-> visualizationUrl,
                            preferences |-> {}]
                IN
                /\ generated_rooms' = generated_rooms \cup {filePath}
                /\ \E sessionError \in BOOLEAN :
                     /\ user_sessions' = IF sessionError THEN user_sessions
                                         ELSE Append(user_sessions, row)
                     /\ UNCHANGED <<rls, user, room_images, room_uploads, upload_seq, furniture_items,
                                    furniture_seq, furniture_placement_metadata,
                                    placement_seq, lastPut>>
                     /\ last' =
                          IF SessionErrorIsFatal(sessionError)
                            THEN [areq EXCEPT !.status = 500,
                                    !.sessionFailed = sessionError,
                                    !.wrote = Changed]
                            ELSE [areq EXCEPT !.status = 200,
                                    !.sessionFailed = sessionError,
                                    !.url = visualizationUrl,
                                    !.session_id = IF sessionError THEN 0
                                                   ELSE row.id,
                                    !.wrote = Changed]

\* ------------------------------------------------ provider: text completion
\* one POST to api.openai.com/v1/completions; the text is
\* data.choices[0].text.trim(), which throws when there is no text
openAIService_textCompletion(http) ==
  IF http = "ok"
    THEN [threw |-> FALSE, defined |-> TRUE, provider |-> "openai"]
    ELSE [threw |-> TRUE, defined |-> FALSE, provider |-> "openai"]

\* one POST to gemini-pro:generateContent; the text is
\* data.candidates[0].content.parts[0].text, returned as it is
geminiService_textCompletion(http) ==
  IF http = "ok"
    THEN [threw |-> FALSE, defined |-> TRUE, provider |-> "gemini"]
  ELSE IF http = "nofield"
    THEN [threw |-> FALSE, defined |-> FALSE, provider |-> "gemini"]
  ELSE [threw |-> TRUE, defined |-> FALSE, provider |-> "gemini"]

llmService_completeText(env, http) ==
  IF getCurrentProvider(env) = "openai"
    THEN openAIService_textCompletion(http)
    ELSE geminiService_textCompletion(http)

\* ------------------------------------------------ provider: image analysis
\* one POST to api.openai.com/v1/chat/completions; the text is
\* data.choices[0].message.content.trim()
openAIService_analyzeImage(http) ==
  IF http = "ok"
    THEN [threw |-> FALSE, defined |-> TRUE, provider |-> "openai"]
    ELSE [threw |-> TRUE, defined |-> FALSE, provider |-> "openai"]

\* the image is downloaded first, then one POST to gemini-pro-vision; the text
\* is data.candidates[0].content.parts[0].text, returned as it is
geminiService_analyzeImage(http) ==
  IF http = "ok"
    THEN [threw |-> FALSE, defined |-> TRUE, provider |-> "gemini"]
  ELSE IF http = "nofield"
    THEN [threw |-> FALSE, defined |-> FALSE, provider |-> "gemini"]
  ELSE [threw |-> TRUE, defined |-> FALSE, provider |-> "gemini"]

llmService_analyzeImage(env, http) ==
  IF getCurrentProvider(env) = "openai"
    THEN openAIService_analyzeImage(http)
    ELSE geminiService_analyzeImage(http)

\* ------------------------------------------------------ the AI's free text
\* a text is a sequence of tokens: "{" and "}", "t" for any other prose, and
\* "m" for one JSON member whose value is the payload
Tok == {"{", "}", "t", "m"}
Texts == UNION {[1..n -> Tok] : n \in 0..MaxTextLen}

Items == [name : {"", "Sofa"}, price : {-1, 300}]

\* what the member of the object is
Payloads ==
  {[kind |-> "undefined", items |-> <<>>],      \* some other key
   [kind |-> "null", items |-> <<>>],           \* "recommendations": null
   [kind |-> "scalar", items |-> <<>>],         \* "recommendations": 5
   [kind |-> "array", items |-> <<>>]}          \* "recommendations": []
  \cup {[kind |-> "array", items |-> <<it>>] : it \in Items}

Undefined == [kind |-> "undefined", items |-> <<>>]

\* text.match(/\{[\s\S]*\}/): from the first "{" to the last "}"
JsonMatch(text) ==
  LET opens == {i \in 1..Len(text) : text[i] = "{"}
      closes == {i \in 1..Len(text) : text[i] = "}"}
  IN IF opens = {} THEN [found |-> FALSE, str |-> <<>>]
     ELSE LET first == CHOOSE i \in opens : \A j \in opens : i <= j
              after == {i \in closes : i > first}
          IN IF after = {} THEN [found |-> FALSE, str |-> <<>>]
             ELSE LET lst == CHOOSE i \in after : \A j \in after : j <= i
                  IN [found |-> TRUE, str |-> SubSeq(text, first, lst)]

\* JSON.parse of the matched substring; recommendations is the value of the
\* object's "recommendations" key
JsonParse(str, payload) ==
  IF str = <<"{", "}">> THEN [ok |-> TRUE, recommendations |-> Undefined]
  ELSE IF str = <<"{", "m", "}">> THEN [ok |-> TRUE, recommendations |-> payload]
  ELSE [ok |-> FALSE, recommendations |-> Undefined]

\* the try block of the handler: match, then parse, or throw
ExtractRecommendations(text, payload) ==
  LET jsonMatch == JsonMatch(text)
  IN IF jsonMatch.found
       THEN JsonParse(jsonMatch.str, payload)
       ELSE [ok |-> FALSE, recommendations |-> Undefined]

\* what the try block can yield over all the texts the provider may return
ExtractedTexts ==
  {ExtractRecommendations(text, payload) : text \in Texts, payload \in Payloads}

\* the fixed list substituted in development
MockRecommendations ==
  [kind |-> "array",
   items |-> <<[name |-> "Mid-Century Modern Sofa", price |-> 799],
               [name |-> "Round Coffee Table", price |-> 249]>>]

NodeEnvs == {"development", "production", "test"}

\* a catch block that substitutes the fixed list in every configuration
UseFallback_Always(nodeEnv) == TRUE

\* the catch block's test: process.env.NODE_ENV === 'development'
UseFallback(nodeEnv) == nodeEnv = "development"

\* ------------------------------------------- POST /api/recommend-furniture
RecommendationRequestSchema(body) ==
  /\ body.room_image_id \in ImageIds
  /\ body.budget >= 0
  /\ body.furniture_types # <<>>

RecommendBodies ==
  [json : {TRUE}, room_image_id : ImageIds, budget : {-1, 0, 1000},
   style : {"modern"}, furniture_types : {<<>>, <<"sofa">>}]
  \cup [json : {FALSE}, room_image_id : {""}, budget : {0},
        style : {""}, furniture_types : {<<>>}]

POST_recommend_furniture ==
  /\ Idle
  /\ Len(user_sessions) < MaxSessions
  /\ \E caller \in Callers, body \in RecommendBodies :
      LET req0 == [NoResp EXCEPT !.op = "recommend-furniture", !.caller = caller]
          req == [req0 EXCEPT !.room_image_id = body.room_image_id,
                    !.imageOwner = ImageOwner(body.room_image_id),
                    !.body = <<body.budget, body.style, body.furniture_types>>]
      IN
      IF caller = Anon THEN Reply(req0, 401)
      ELSE IF ~body.json THEN Throw(req0, "body")
      ELSE IF ~RecommendationRequestSchema(body) THEN Reply(req0, 400)
      ELSE \E roomFail \in BOOLEAN :
        LET roomImage ==
              Single({r \in SelectRoomImages(caller) : r.id = body.room_image_id})
        IN
        IF roomFail \/ roomImage.error
          THEN Reply([req EXCEPT !.lookupFailed = roomFail], 404)
        ELSE IF Row(roomImage).user_id # caller THEN Reply(req, 403)
        ELSE \E env \in EnvValues, http \in HttpOutcomes :
          LET res == llmService_analyzeImage(env, http)
              areq == [req EXCEPT !.aiCalled = TRUE,
                         !.selector = getCurrentProvider(env), !.http = http]
          IN
          IF res.threw THEN Throw([areq EXCEPT !.threw = TRUE], "provider")
          ELSE
            \E extracted \in IF res.defined THEN ExtractedTexts
                             ELSE {[ok |-> FALSE, recommendations |-> Undefined]} :
            \E nodeEnv \in IF extracted.ok THEN {""} ELSE NodeEnvs :
              LET preq == [areq EXCEPT !.nodeEnv = nodeEnv,
                             !.parsed = IF extracted.ok THEN "ok" ELSE "fail"]
              IN
              IF ~extracted.ok /\ ~UseFallback(nodeEnv) THEN Reply(preq, 500)
              ELSE
                LET recommendations ==
                      IF extracted.ok THEN extracted.recommendations
                      ELSE MockRecommendations
                    row == [id |-> Len(user_sessions) + 1,
                            user_id |-> caller,
                            uploaded_image_id |-> body.room_image_id,
                            selected_furniture_ids |-> {},
                            generated_image_url |-> NullUrl,
                            preferences |-> {[budget |-> body.budget,
                                              style |-> body.style,
                                              furniture_types |-> body.furniture_types]}]
                IN
                \E sessionError \in BOOLEAN :
                  /\ user_sessions' = IF sessionError THEN user_sessions
                                      ELSE Append(user_sessions, row)
                  /\ UNCHANGED <<rls, user, room_images, room_uploads, upload_seq, furniture_items, furniture_seq,
                                 furniture_placement_metadata, placement_seq,
                                 generated_rooms, lastPut>>
                  /\ last' =
                       IF recommendations.kind \in {"undefined", "null"}
                         \* recommendations.recommendations.length throws
                         THEN [CatchAll(preq, "length") EXCEPT !.wrote = Changed]
                         ELSE [preq EXCEPT !.status = 200,
                                 !.hasRecs = (recommendations.kind = "array"),
                                 !.recs = recommendations.items,
                                 !.wrote = Changed]

\* ---------------------------------------------------- /api/furniture
Prices == {-1, 0}

\* supabase.from('users').select('is_admin').eq('id', uid).single(); the policy
\* "Users can read their own data" lets every caller read the own row
SelectIsAdmin(uid, userFail) ==
  IF userFail \/ uid \notin DOMAIN users
    THEN [error |-> TRUE, is_admin |-> FALSE]
    ELSE [error |-> FALSE, is_admin |-> users[uid].is_admin]

\* if (userError || userData?.is_admin !== true) -> 403
\* an admin check that only looks at the lookup's error
AdminRequired_NoFlag(userData) == userData.error

AdminRequired(userData) == userData.error \/ userData.is_admin # TRUE

\* policy "Admins can manage furniture items" FOR ALL
MayManageFurniture(uid) == ~rls \/ users[uid].is_admin

\* .contains('selected_furniture_ids', [id]).limit(1) on user_sessions
UsedInSessions(uid, id) ==
  {s \in SelectUserSessions(uid) : id \in s.selected_furniture_ids}

\* the item is listed by some design session, whoever owns it
Referenced(id) ==
  \E i \in 1..Len(user_sessions) : id \in user_sessions[i].selected_furniture_ids

FurnitureBodies ==
  [json : {TRUE}, hasName : BOOLEAN, hasPrice : BOOLEAN, price : Prices]
  \cup [json : {FALSE}, hasName : {FALSE}, hasPrice : {FALSE}, price : {0}]

\* FurnitureUpdateSchema = FurnitureCreateSchema.partial(): every field is
\* optional, a price that is present is nonnegative
FurnitureUpdateSchema(body) == body.hasPrice => body.price >= 0

\* POST /api/furniture
POST_furniture ==
  /\ Idle
  /\ furniture_seq < MaxFurniture
  /\ \E caller \in Callers, body \in FurnitureBodies, userFail \in BOOLEAN :
      LET req0 == [NoResp EXCEPT !.op = "POST furniture", !.caller = caller]
          req == [req0 EXCEPT !.lookupFailed = userFail]
      IN
      IF caller = Anon THEN Reply(req0, 401)
      ELSE IF AdminRequired(SelectIsAdmin(caller, userFail)) THEN Reply(req, 403)
      ELSE IF ~body.json THEN Throw(req, "body")
      ELSE \E insertFail \in BOOLEAN :
        \* name TEXT NOT NULL, price DECIMAL NOT NULL
        IF insertFail \/ ~body.hasName \/ ~body.hasPrice
           \/ ~MayManageFurniture(caller)
          THEN Reply(req, 500)
          ELSE
            /\ furniture_seq' = furniture_seq + 1
            /\ furniture_items' = furniture_items
                 \cup {[id |-> furniture_seq + 1, price |-> body.price]}
            /\ UNCHANGED <<rls, user, room_images, room_uploads, upload_seq, user_sessions,
                           furniture_placement_metadata, placement_seq,
                           generated_rooms, lastPut>>
            /\ last' = [req EXCEPT !.status = 201, !.target = furniture_seq + 1,
                          !.body = <<body.price>>, !.wrote = Changed]

\* PUT /api/furniture/:id
PUT_furniture ==
  /\ Idle
  /\ \E caller \in Callers, id \in FurnIds, body \in FurnitureBodies,
        userFail \in BOOLEAN :
      LET req0 == [NoResp EXCEPT !.op = "PUT furniture", !.caller = caller]
          req == [req0 EXCEPT !.lookupFailed = userFail, !.target = id]
      IN
      IF caller = Anon THEN Reply(req0, 401)
      ELSE IF AdminRequired(SelectIsAdmin(caller, userFail)) THEN Reply(req, 403)
      ELSE IF ~body.json THEN Throw(req, "body")
      ELSE IF ~FurnitureUpdateSchema(body)
        THEN Reply([req EXCEPT !.body = <<body.price>>], 400)
      ELSE \E checkFail \in BOOLEAN :
        LET existingItem == Single({it \in SelectFurnitureItems(caller) : it.id = id})
        IN
        IF checkFail \/ existingItem.error THEN Reply(req, 404)
        ELSE \E updateFail \in BOOLEAN :
          IF updateFail \/ ~MayManageFurniture(caller) THEN Reply(req, 500)
          ELSE
            /\ furniture_items' =
                 {IF it.id = id /\ body.hasPrice
                    THEN [it EXCEPT !.price = body.price] ELSE it :
                  it \in furniture_items}
            /\ UNCHANGED <<rls, user, room_images, room_uploads, upload_seq, furniture_seq, user_sessions,
                           furniture_placement_metadata, placement_seq,
                           generated_rooms, lastPut>>
            /\ last' = [req EXCEPT !.status = 200, !.wrote = Changed]

\* DELETE /api/furniture/:id
DELETE_furniture ==
  /\ Idle
  /\ \E caller \in Callers, id \in FurnIds, userFail \in BOOLEAN :
      LET req0 == [NoResp EXCEPT !.op = "DELETE furniture", !.caller = caller]
          req == [req0 EXCEPT !.lookupFailed = userFail, !.target = id,
                    !.referenced = Referenced(id)]
      IN
      IF caller = Anon THEN Reply(req0, 401)
      ELSE IF AdminRequired(SelectIsAdmin(caller, userFail)) THEN Reply(req, 403)
      ELSE \E sessionCheckError \in BOOLEAN :
        IF ~sessionCheckError /\ UsedInSessions(caller, id) # {}
          THEN Reply(req, 409)
        ELSE \E deleteError \in BOOLEAN :
          IF deleteError THEN Reply(req, 500)
          ELSE
            \* rows the policy hides are not deleted; placement rows of the
            \* item go with it (ON DELETE CASCADE)
            /\ furniture_items' =
                 IF MayManageFurniture(caller)
                   THEN {it \in furniture_items : it.id # id}
                   ELSE furniture_items
            /\ furniture_placement_metadata' =
                 IF MayManageFurniture(caller)
                   THEN {p \in furniture_placement_metadata : p.furniture_id # id}
                   ELSE furniture_placement_metadata
            /\ lastPut' = IF furniture_placement_metadata'
                                = furniture_placement_metadata
                             THEN lastPut ELSE NoPut
            /\ UNCHANGED <<rls, user, room_images, room_uploads, upload_seq, furniture_seq, user_sessions,
                           placement_seq, generated_rooms>>
            /\ last' = [req EXCEPT !.status = 200, !.wrote = Changed]

\* ------------------------------------- /api/furniture-placement-metadata
SessionIds == 1..(MaxSessions + 1)
PlacementIds == 1..(MaxPlacements + 1)
Coords == {0, 1}
Sizes == {0, 1}

Placements ==
  [furniture_id : FurnIds, x : Coords, y : {0}, width : Sizes, height : Sizes]

\* a request body: malformed JSON, a JSON array of placements, or a JSON object
\* that may carry the fields of one placement and a "placements" array
PlacementBodies ==
  [kind : {"object"}, id : PlacementIds, generated_image_id : SessionIds,
   hasFields : {TRUE}, furniture_id : FurnIds, x : Coords, y : {0},
   width : Sizes, height : Sizes, placements : {<<>>}]
  \cup [kind : {"object", "array"}, id : {1}, generated_image_id : SessionIds,
        hasFields : {FALSE}, furniture_id : {1}, x : {0}, y : {0},
        width : {1}, height : {1},
        placements : {<<p>> : p \in Placements}
                     \cup {<<p, p>> : p \in Placements}]
  \cup [kind : {"malformed"}, id : {1}, generated_image_id : {1},
        hasFields : {FALSE}, furniture_id : {1}, x : {0}, y : {0},
        width : {1}, height : {1}, placements : {<<>>}]

\* z.object({generated_image_id, placements: z.array(z.object({..., width:
\* positive, height: positive}))}): an object with both keys
BatchPlacementSchema(body) ==
  /\ body.kind = "object"
  /\ body.placements # <<>>
  /\ \A i \in 1..Len(body.placements) :
       body.placements[i].width > 0 /\ body.placements[i].height > 0

\* z.object({id, generated_image_id, furniture_id, x, y, width: positive,
\* height: positive}); .omit({id: true}) for a create
\* a schema with nonnegative() in place of positive()
FurniturePlacementMetadataSchema_Nonneg(body) ==
  /\ body.kind = "object"
  /\ body.hasFields
  /\ body.width >= 0
  /\ body.height >= 0

FurniturePlacementMetadataSchema(body) ==
  /\ body.kind = "object"
  /\ body.hasFields
  /\ body.width > 0
  /\ body.height > 0

BodyTuple(body) ==
  <<body.furniture_id, body.x, body.y, body.width, body.height>>

\* SELECT/INSERT/UPDATE policies: the caller owns the session of the row
PlacementAllowed(uid, generated_image_id) ==
  ~rls \/ SessionOwner(generated_image_id) = uid

SelectPlacements(uid) ==
  {p \in furniture_placement_metadata : PlacementAllowed(uid, p.generated_image_id)}

\* foreign keys of furniture_placement_metadata
PlacementForeignKeys(generated_image_id, furniture_id) ==
  /\ generated_image_id \in 1..Len(user_sessions)
  /\ \E it \in furniture_items : it.id = furniture_id

\* .update({furniture_id, x, y, width, height}).eq('id', id)
\* an update that adds the body's offsets to the stored ones
\* an update that also moves the row to the session the body names
UpdatePlacement_Rebind(table, data) ==
  {IF p.id = data.id
     THEN [p EXCEPT !.generated_image_id = data.generated_image_id,
             !.furniture_id = data.furniture_id, !.x = data.x,
             !.y = data.y, !.width = data.width, !.height = data.height]
     ELSE p : p \in table}

UpdatePlacement_Accumulate(table, data) ==
  {IF p.id = data.id
     THEN [p EXCEPT !.furniture_id = data.furniture_id, !.x = p.x + data.x,
             !.y = p.y + data.y, !.width = data.width, !.height = data.height]
     ELSE p : p \in table}

UpdatePlacement(table, data) ==
  {IF p.id = data.id
     THEN [p EXCEPT !.furniture_id = data.furniture_id, !.x = data.x,
             !.y = data.y, !.width = data.width, !.height = data.height]
     ELSE p : p \in table}

\* GET /api/furniture-placement-metadata?generated_image_id=
GET_placement ==
  /\ Idle
  /\ \E caller \in Callers, generatedImageId \in SessionIds \cup {0} :
      LET req0 == [NoResp EXCEPT !.op = "GET placement", !.caller = caller]
          req == [req0 EXCEPT !.target = generatedImageId,
                    !.sessionOwner = SessionOwner(generatedImageId)]
      IN
      IF caller = Anon THEN Reply(req0, 401)
      ELSE IF generatedImageId = 0 THEN Reply(req0, 400)
      ELSE \E sessionFail \in BOOLEAN :
        LET userSession ==
              Single({u \in SelectUserSessions(caller) : u.id = generatedImageId})
        IN
        IF sessionFail \/ userSession.error
          THEN Reply([req EXCEPT !.lookupFailed = sessionFail], 404)
        ELSE IF Row(userSession).user_id # caller THEN Reply(req, 403)
        ELSE \E placementsError \in BOOLEAN :
          IF placementsError THEN Reply(req, 500)
          ELSE Reply([req EXCEPT !.rows =
                        {p \in SelectPlacements(caller) :
                           p.generated_image_id = generatedImageId}], 200)

\* the rows a create inserts, each with a fresh id
NewPlacements(generated_image_id, placements) ==
  {[id |-> placement_seq + i,
    generated_image_id |-> generated_image_id,
    furniture_id |-> placements[i].furniture_id,
    x |-> placements[i].x, y |-> placements[i].y,
    width |-> placements[i].width, height |-> placements[i].height] :
   i \in 1..Len(placements)}

\* POST /api/furniture-placement-metadata
POST_placement ==
  /\ Idle
  /\ placement_seq < MaxPlacements
  /\ \E caller \in Callers, body \in PlacementBodies :
      LET req0 == [NoResp EXCEPT !.op = "POST placement", !.caller = caller]
          reqB == [req0 EXCEPT
                     !.kind = IF body.hasFields THEN "single" ELSE body.kind,
                     !.target = body.generated_image_id,
                     !.body = IF body.hasFields THEN BodyTuple(body)
                              ELSE body.placements]
          req == [reqB EXCEPT
                    !.sessionOwner = SessionOwner(body.generated_image_id)]
          placements == IF body.kind = "array" THEN body.placements
                        ELSE <<[furniture_id |-> body.furniture_id, x |-> body.x,
                                y |-> body.y, width |-> body.width,
                                height |-> body.height]>>
          valid == IF body.kind = "array" THEN BatchPlacementSchema(body)
                   ELSE FurniturePlacementMetadataSchema(body)
      IN
      IF caller = Anon THEN Reply(req0, 401)
      ELSE IF body.kind = "malformed" THEN Throw(req0, "body")
      ELSE IF ~valid THEN Reply(reqB, 400)
      ELSE \E sessionFail \in BOOLEAN :
        LET userSession ==
              Single({u \in SelectUserSessions(caller) :
                        u.id = body.generated_image_id})
        IN
        IF sessionFail \/ userSession.error
           \/ Row(userSession).user_id # caller
          THEN Reply(req, 403)
        ELSE \E insertError \in BOOLEAN :
          IF \/ insertError
             \/ ~PlacementAllowed(caller, body.generated_image_id)
             \/ \E i \in 1..Len(placements) :
                  ~PlacementForeignKeys(body.generated_image_id,
                                        placements[i].furniture_id)
            THEN Reply(req, 500)
            ELSE
              /\ furniture_placement_metadata' = furniture_placement_metadata
                   \cup NewPlacements(body.generated_image_id, placements)
              /\ placement_seq' = placement_seq + Len(placements)
              /\ lastPut' = NoPut
              /\ UNCHANGED <<rls, user, room_images, room_uploads, upload_seq, furniture_items, furniture_seq,
                             user_sessions, generated_rooms>>
              /\ last' = [req EXCEPT !.status = 201,
                            !.rows = NewPlacements(body.generated_image_id,
                                                   placements),
                            !.wrote = Changed]

\* PUT /api/furniture-placement-metadata
PUT_placement ==
  /\ Idle
  /\ \E caller \in Callers, body \in PlacementBodies :
      LET req0 == [NoResp EXCEPT !.op = "PUT placement", !.caller = caller]
          stored == {p \in furniture_placement_metadata : p.id = body.id}
          req == [req0 EXCEPT !.kind = "single", !.target = body.id,
                    !.session_id = body.generated_image_id,
                    !.sessionOwner =
                       IF stored = {} THEN ""
                       ELSE SessionOwner((CHOOSE p \in stored : TRUE).generated_image_id),
                    !.body = BodyTuple(body),
                    !.repeat = (lastPut.valid /\ lastPut.body = <<body.id>> \o BodyTuple(body)),
                    !.tableAfterFirst = lastPut.table,
                    !.before = furniture_placement_metadata]
      IN
      IF caller = Anon THEN Reply(req0, 401)
      ELSE IF body.kind = "malformed" THEN Throw(req0, "body")
      ELSE IF ~FurniturePlacementMetadataSchema(body) THEN Reply(req0, 400)
      ELSE \E fetchFail \in BOOLEAN :
        LET existingPlacement ==
              Single({p \in SelectPlacements(caller) : p.id = body.id})
        IN
        IF fetchFail \/ existingPlacement.error
          THEN Reply([req EXCEPT !.lookupFailed = fetchFail], 404)
        ELSE \E sessionFail \in BOOLEAN :
          LET userSession ==
                Single({u \in SelectUserSessions(caller) :
                          u.id = Row(existingPlacement).generated_image_id})
          IN
          IF sessionFail \/ userSession.error
             \/ Row(userSession).user_id # caller
            THEN Reply(req, 403)
          ELSE \E updateError \in BOOLEAN :
            IF \/ updateError
               \/ ~PlacementForeignKeys(Row(existingPlacement).generated_image_id,
                                        body.furniture_id)
              THEN Reply(req, 500)
              ELSE
                /\ furniture_placement_metadata' =
                     UpdatePlacement(furniture_placement_metadata, body)
                /\ lastPut' = [valid |-> TRUE,
                               body |-> <<body.id>> \o BodyTuple(body),
                               table |-> furniture_placement_metadata']
                /\ UNCHANGED <<rls, user, room_images, room_uploads, upload_seq, furniture_items, furniture_seq,
                               user_sessions, placement_seq, generated_rooms>>
                /\ last' = [req EXCEPT !.status = 200,
                              !.rows = {p \in furniture_placement_metadata' :
                                          p.id = body.id},
                              !.wrote = Changed]

\* ---------------------------------------------------------- specification
Init ==
  /\ rls \in BOOLEAN
  /\ user = mockUser
  /\ room_images = {[id |-> "i1", user_id |-> "u1"],
                    [id |-> "i2", user_id |-> "u2"]}
  /\ room_uploads = {"i1", "i2"}
  /\ upload_seq = 0
  /\ furniture_items = {[id |-> 1, price |-> 0]}
  /\ furniture_seq = 1
  /\ user_sessions = <<>>
  /\ furniture_placement_metadata = {}
  /\ placement_seq = 0
  /\ generated_rooms = {}
  /\ lastPut = NoPut
  /\ last = NoResp

Next ==
  \/ POST_generate_room_visual
  \/ POST_recommend_furniture
  \/ SendResponse

Spec == Init /\ [][Next]_vars

\* the catalog routes, with the visualization route that makes sessions refer
\* to catalog items
NextCatalog ==
  \/ POST_generate_room_visual
  \/ POST_furniture
  \/ PUT_furniture
  \/ DELETE_furniture
  \/ SendResponse

SpecCatalog == Init /\ [][NextCatalog]_vars
\* the placement routes over the design sessions of one user: a session with
\* a generated image and a session that has none yet
InitPlacement ==
  /\ rls \in BOOLEAN
  /\ user = mockUser
  /\ room_images = {[id |-> "i1", user_id |-> "u1"],
                    [id |-> "i2", user_id |-> "u2"]}
  /\ room_uploads = {"i1", "i2"}
  /\ upload_seq = 0
  /\ furniture_items = {[id |-> 1, price |-> 0]}
  /\ furniture_seq = 1
  /\ user_sessions =
       <<[id |-> 1, user_id |-> "u1", uploaded_image_id |-> "i1",
          selected_furniture_ids |-> {1},
          generated_image_url |-> getPublicUrl("generated-rooms", <<"u1", 1>>),
          preferences |-> {}],
         [id |-> 2, user_id |-> "u1", uploaded_image_id |-> "i1",
          selected_furniture_ids |-> {},
          generated_image_url |-> NullUrl,
          preferences |-> {[budget |-> 0, style |-> "modern",
                            furniture_types |-> <<"sofa">>]}]>>
  /\ furniture_placement_metadata = {}
  /\ placement_seq = 0
  /\ generated_rooms = {<<"u1", 1>>}
  /\ lastPut = NoPut
  /\ last = NoResp

NextPlacement ==
  \/ GET_placement
  \/ POST_placement
  \/ PUT_placement
  \/ SendResponse

SpecPlacement == InitPlacement /\ [][NextPlacement]_vars

\* ---------------------------------------------------- room image storage
\* the file names uuidv4() hands out, in order; the row's id is named alike
NewImageIds == <<"n1", "n2", "n3">>

Files == {"none", "badtype", "toolarge", "ok"}

\* validateFile: the type is allowed and the size is at most MAX_FILE_SIZE
validateFile(file) == file = "ok"

\* the library works through the module-level client of lib/supabase, not the
\* request's: its auth.uid() is libUid, the user of the latest sign-in the
\* auth routes made on that client, or nobody
LibUids == Callers

\* INSERT policy "Users can insert their own room images"
LibInsertRoomImageAllowed(libUid, userId) == ~rls \/ libUid = userId

\* uploadRoomImage(file, userId): what it leaves and how it ends. uploadError,
\* dbError and removeError are the outcomes of its three store calls
uploadRoomImage(file, userId, libUid, uploadError, dbError, removeError) ==
  LET filePath == NewImageIds[upload_seq + 1]
  IN
  IF ~validateFile(file)
    THEN [threw |-> TRUE, code |-> "invalid_file", path |-> "",
          objects |-> room_uploads, rows |-> room_images]
  ELSE IF uploadError
    THEN [threw |-> TRUE, code |-> "upload_failed", path |-> filePath,
          objects |-> room_uploads, rows |-> room_images]
  ELSE IF dbError \/ ~LibInsertRoomImageAllowed(libUid, userId)
    \* remove([filePath]) is awaited and its result is not looked at
    THEN [threw |-> TRUE, code |-> "database_error", path |-> filePath,
          objects |-> IF removeError THEN room_uploads \cup {filePath}
                      ELSE room_uploads,
          rows |-> room_images]
  ELSE [threw |-> FALSE, code |-> "", path |-> filePath,
        objects |-> room_uploads \cup {filePath},
        rows |-> room_images \cup {[id |-> filePath, user_id |-> userId]}]

\* POST /api/upload-room-image
POST_upload_room_image ==
  /\ Idle
  /\ upload_seq < MaxUploads
  /\ \E caller \in Callers, formOk \in BOOLEAN, file \in Files,
        libUid \in LibUids :
      LET req0 == [NoResp EXCEPT !.op = "upload-room-image", !.caller = caller]
          req == [req0 EXCEPT !.file = file]
      IN
      IF caller = Anon THEN Reply(req0, 401)
      ELSE IF ~formOk THEN Throw(req0, "form")
      ELSE IF file = "none" THEN Reply(req, 400)
      ELSE IF ~validateFile(file) THEN Reply(req, 400)
      ELSE \E uploadError \in BOOLEAN :
        IF uploadError
          THEN LET res == uploadRoomImage(file, caller, libUid, TRUE, FALSE, FALSE)
               IN /\ upload_seq' = upload_seq + 1
                  /\ UNCHANGED <<rls, user, room_images, room_uploads, furniture_items,
                                 furniture_seq, user_sessions,
                                 furniture_placement_metadata, placement_seq,
                                 generated_rooms, lastPut>>
                  /\ last' = [CatchAll(req, "storage") EXCEPT !.threw = TRUE,
                                !.code = res.code, !.path = res.path]
          ELSE \E dbError \in BOOLEAN :
            \E removeError \in BOOLEAN :
              LET res == uploadRoomImage(file, caller, libUid, FALSE, dbError,
                                         removeError)
              IN /\ upload_seq' = upload_seq + 1
                 /\ room_uploads' = res.objects
                 /\ room_images' = res.rows
                 /\ UNCHANGED <<rls, user, furniture_items, furniture_seq,
                                user_sessions, furniture_placement_metadata,
                                placement_seq, generated_rooms, lastPut>>
                 /\ last' =
                      [(IF res.threw THEN CatchAll(req, "storage")
                        ELSE [req EXCEPT !.status = 200]) EXCEPT
                         !.threw = res.threw, !.code = res.code,
                         !.path = res.path, !.wrote = Changed]

\* SELECT policy "Users can read their own room images", for the library
LibSelectRoomImages(libUid) ==
  IF rls THEN {r \in room_images : r.user_id = libUid} ELSE room_images

\* room_images has no DELETE policy: with the policies in force a DELETE
\* matches no row and reports no error
LibDeleteRoomImage(imageId, userId) ==
  IF rls THEN room_images
  ELSE {r \in room_images : ~(r.id = imageId /\ r.user_id = userId)}

\* user_sessions.uploaded_image_id ... ON DELETE SET NULL
SetNullUploadedImage(rows) ==
  [i \in 1..Len(user_sessions) |->
     IF \E r \in rows : r.id = user_sessions[i].uploaded_image_id
       THEN user_sessions[i]
       ELSE [user_sessions[i] EXCEPT !.uploaded_image_id = ""]]

\* deleteRoomImage(imageId, userId), called directly
Call_deleteRoomImage ==
  /\ Idle
  /\ \E imageId \in {r.id : r \in room_images} \cup {"i9"},
        userId \in Users, libUid \in LibUids, fetchError \in BOOLEAN :
      LET req == [NoResp EXCEPT !.op = "deleteRoomImage", !.caller = userId,
                    !.room_image_id = imageId,
                    !.imageOwner = ImageOwner(imageId),
                    !.hadObject = (imageId \in room_uploads)]
          image == Single({r \in LibSelectRoomImages(libUid) :
                            r.id = imageId /\ r.user_id = userId})
      IN
      IF fetchError \/ image.error
        THEN Reply([req EXCEPT !.threw = TRUE, !.code = "not_found"], 0)
      ELSE \E storageError \in BOOLEAN :
        IF storageError
          THEN Reply([req EXCEPT !.threw = TRUE,
                        !.code = "storage_delete_failed"], 0)
        ELSE \E dbError \in BOOLEAN :
          LET rows == IF dbError THEN room_images
                      ELSE LibDeleteRoomImage(imageId, userId)
          IN
          /\ room_uploads' = room_uploads \ {Row(image).id}
          /\ room_images' = rows
          /\ user_sessions' = SetNullUploadedImage(rows)
          /\ UNCHANGED <<rls, user, upload_seq, furniture_items, furniture_seq,
                         furniture_placement_metadata, placement_seq,
                         generated_rooms, lastPut>>
          /\ last' = [req EXCEPT !.threw = dbError,
                        !.code = IF dbError THEN "database_delete_failed"
                                 ELSE "",
                        !.wrote = Changed]

NextStorage ==
  \/ POST_upload_room_image
  \/ Call_deleteRoomImage
  \/ SendResponse

SpecStorage == Init /\ [][NextStorage]_vars

\* ------------------------------------------------------------ admin routes
\* SELECT policy "Users can read their own data"
SelectUsers(uid) ==
  IF rls THEN {users[u] : u \in {uid} \cap DOMAIN users}
         ELSE {users[u] : u \in DOMAIN users}

\* GET /api/admin/stats
GET_admin_stats ==
  /\ Idle
  /\ \E caller \in Callers, userFail \in BOOLEAN :
      LET req0 == [NoResp EXCEPT !.op = "GET admin stats", !.caller = caller]
          req == [req0 EXCEPT !.lookupFailed = userFail]
          userData == SelectIsAdmin(caller, userFail)
      IN
      IF caller = Anon THEN Reply(req0, 401)
      ELSE IF userData.error \/ userData.is_admin # TRUE THEN Reply(req, 403)
      ELSE \E countError \in BOOLEAN :
        IF countError THEN Reply(req, 500)
        ELSE
          LET sessions == SelectUserSessions(caller)
              designs == {x \in sessions : x.generated_image_url # NullUrl}
          IN Reply([req EXCEPT !.isAdmin = TRUE,
                      !.body = <<Cardinality(SelectUsers(caller)),
                                 Cardinality(sessions),
                                 Cardinality(SelectFurnitureItems(caller)),
                                 Cardinality(designs)>>], 200)

\* GET /api/admin/check
GET_admin_check ==
  /\ Idle
  /\ \E caller \in Callers, userFail \in BOOLEAN :
      LET req0 == [NoResp EXCEPT !.op = "GET admin check", !.caller = caller]
          req == [req0 EXCEPT !.lookupFailed = userFail]
          userData == SelectIsAdmin(caller, userFail)
      IN
      IF caller = Anon THEN Reply(req0, 401)
      ELSE IF userData.error THEN Reply(req, 500)
      ELSE Reply([req EXCEPT !.isAdmin = (userData.is_admin = TRUE)], 200)

NextAdmin ==
  \/ GET_admin_stats
  \/ GET_admin_check
  \/ POST_generate_room_visual
  \/ SendResponse

SpecAdmin == Init /\ [][NextAdmin]_vars

\* ------------------------------------------- the exported adapter, called
\* directly: one action per operation, env the selector's setting and http the
\* outcome of the provider's HTTP call
Call_completeText ==
  /\ Idle
  /\ \E env \in EnvValues, http \in HttpOutcomes :
       LET res == llmService_completeText(env, http)
       IN /\ last' = [NoResp EXCEPT !.op = "completeText", !.env = env,
                        !.selector = getCurrentProvider(env), !.http = http,
                        !.aiCalled = TRUE, !.threw = res.threw,
                        !.defined = res.defined]
          /\ UNCHANGED <<rls, user, tables>>

Call_analyzeImage ==
  /\ Idle
  /\ \E env \in EnvValues, http \in HttpOutcomes :
       LET res == llmService_analyzeImage(env, http)
       IN /\ last' = [NoResp EXCEPT !.op = "analyzeImage", !.env = env,
                        !.selector = getCurrentProvider(env), !.http = http,
                        !.aiCalled = TRUE, !.threw = res.threw,
                        !.defined = res.defined]
          /\ UNCHANGED <<rls, user, tables>>

Call_generateImage ==
  /\ Idle
  /\ \E env \in EnvValues, http \in HttpOutcomes :
       LET res == llmService_generateImage(env, http)
       IN /\ last' = [NoResp EXCEPT !.op = "generateImage", !.env = env,
                        !.selector = getCurrentProvider(env), !.http = http,
                        !.aiCalled = TRUE, !.threw = res.threw,
                        !.endpoint = res.endpoint, !.imageUrl = res.imageUrl,
                        !.defined = (res.imageUrl # "")]
          /\ UNCHANGED <<rls, user, tables>>

NextAdapter ==
  \/ Call_completeText
  \/ Call_analyzeImage
  \/ Call_generateImage
  \/ SendResponse

SpecAdapter == Init /\ [][NextAdapter]_vars

\* ------------------- DELETE /api/furniture/:id beside a visualization request
\* The two handlers of the sections above, one store call per step. last.admin
\* makes the DELETE and last.caller the visualization request; delPc and visPc
\* say which call each of them makes next.
Step(r) ==
  /\ last' = r
  /\ UNCHANGED <<rls, user, tables>>

Race_begin ==
  /\ Idle
  /\ Len(user_sessions) < MaxSessions
  /\ Cardinality(generated_rooms) < MaxSessions
  /\ \E admin \in Users, caller \in Users, id \in FurnIds, body \in VisualBodies :
       /\ body.json
       /\ RoomVisualizationRequestSchema(body)
       /\ id \in body.furniture_item_ids
       /\ Step([NoResp EXCEPT !.op = "race", !.admin = admin, !.target = id,
                  !.caller = caller, !.room_image_id = body.room_image_id,
                  !.furniture_ids = body.furniture_item_ids,
                  !.delPc = "users", !.visPc = "room_images"])

\* DELETE: supabase.from('users').select('is_admin')
Delete_users ==
  /\ last.op = "race"
  /\ last.delPc = "users"
  /\ \E userFail \in BOOLEAN :
       IF AdminRequired(SelectIsAdmin(last.admin, userFail))
         THEN Step([last EXCEPT !.delPc = "done", !.delStatus = 403])
         ELSE Step([last EXCEPT !.delPc = "user_sessions"])

\* DELETE: supabase.from('user_sessions').contains('selected_furniture_ids', [id])
Delete_user_sessions ==
  /\ last.op = "race"
  /\ last.delPc = "user_sessions"
  /\ \E sessionCheckError \in BOOLEAN :
       IF ~sessionCheckError /\ UsedInSessions(last.admin, last.target) # {}
         THEN Step([last EXCEPT !.delPc = "done", !.delStatus = 409])
         ELSE Step([last EXCEPT !.delPc = "furniture_items",
                      !.lookupFailed = @ \/ sessionCheckError])

\* DELETE: supabase.from('furniture_items').delete().eq('id', id)
Delete_furniture_items ==
  /\ last.op = "race"
  /\ last.delPc = "furniture_items"
  /\ \E deleteError \in BOOLEAN :
       IF deleteError
         THEN Step([last EXCEPT !.delPc = "done", !.delStatus = 500])
         ELSE
           /\ furniture_items' =
                IF MayManageFurniture(last.admin)
                  THEN {it \in furniture_items : it.id # last.target}
                  ELSE furniture_items
           /\ furniture_placement_metadata' =
                IF MayManageFurniture(last.admin)
                  THEN {p \in furniture_placement_metadata :
                          p.furniture_id # last.target}
                  ELSE furniture_placement_metadata
           /\ lastPut' = IF furniture_placement_metadata'
                               = furniture_placement_metadata
                            THEN lastPut ELSE NoPut
           /\ UNCHANGED <<rls, user, room_images, room_uploads, upload_seq,
                          furniture_seq, user_sessions, placement_seq,
                          generated_rooms>>
           /\ last' = [last EXCEPT !.delPc = "done", !.delStatus = 200]

\* POST: supabase.from('room_images').select('*').eq('id', room_image_id)
Visual_room_images ==
  /\ last.op = "race"
  /\ last.visPc = "room_images"
  /\ \E roomFail \in BOOLEAN :
       LET roomImage ==
             Single({r \in SelectRoomImages(last.caller) :
                       r.id = last.room_image_id})
       IN  IF roomFail \/ roomImage.error
             THEN Step([last EXCEPT !.visPc = "done", !.visStatus = 404])
           ELSE IF Row(roomImage).user_id # last.caller
             THEN Step([last EXCEPT !.visPc = "done", !.visStatus = 403])
           ELSE Step([last EXCEPT !.visPc = "furniture_items"])

\* POST: supabase.from('furniture_items').select('*').in('id', furniture_item_ids)
Visual_furniture_items ==
  /\ last.op = "race"
  /\ last.visPc = "furniture_items"
  /\ \E furnFail \in BOOLEAN :
       IF furnFail
         THEN Step([last EXCEPT !.visPc = "done", !.visStatus = 500])
         ELSE Step([last EXCEPT !.visPc = "generated-rooms",
                      !.allExist = \A f \in last.furniture_ids :
                                     \E it \in furniture_items : it.id = f])

\* POST: llmService.generateImage, the download of its image and
\* supabase.storage.from('generated-rooms').upload
Visual_generated_rooms ==
  /\ last.op = "race"
  /\ last.visPc = "generated-rooms"
  /\ \E env \in EnvValues, http \in HttpOutcomes,
        fetchFail \in BOOLEAN, uploadError \in BOOLEAN :
       LET gen == llmService_generateImage(env, http)
           filePath == <<last.caller, Cardinality(generated_rooms) + 1>>
       IN  IF gen.threw \/ gen.imageUrl = "" \/ fetchFail \/ uploadError
             THEN Step([last EXCEPT !.visPc = "done", !.visStatus = 500])
             ELSE
               /\ generated_rooms' = generated_rooms \cup {filePath}
               /\ UNCHANGED <<rls, user, room_images, room_uploads, upload_seq,
                              furniture_items, furniture_seq, user_sessions,
                              furniture_placement_metadata, placement_seq,
                              lastPut>>
               /\ last' = [last EXCEPT !.visPc = "user_sessions",
                             !.url = getPublicUrl("generated-rooms", filePath)]

\* POST: supabase.from('user_sessions').upsert([...])
Visual_user_sessions ==
  /\ last.op = "race"
  /\ last.visPc = "user_sessions"
  /\ \E sessionError \in BOOLEAN :
       LET row == [id |-> Len(user_sessions) + 1,
                   user_id |-> last.caller,
                   uploaded_image_id |-> last.room_image_id,
                   selected_furniture_ids |-> last.furniture_ids,
                   generated_image_url |-> last.url,
                   preferences |-> {}]
       IN  /\ user_sessions' = IF sessionError THEN user_sessions
                               ELSE Append(user_sessions, row)
           /\ UNCHANGED <<rls, user, room_images, room_uploads, upload_seq,
                          furniture_items, furniture_seq,
                          furniture_placement_metadata, placement_seq,
                          generated_rooms, lastPut>>
           /\ last' = [last EXCEPT !.visPc = "done",
                         !.visStatus = IF SessionErrorIsFatal(sessionError)
                                         THEN 500 ELSE 200,
                         !.sessionFailed = sessionError,
                         !.session_id = IF sessionError THEN 0 ELSE row.id]

\* both responses have been sent
Race_end ==
  /\ last.op = "race"
  /\ last.delPc = "done"
  /\ last.visPc = "done"
  /\ Step(NoResp)

NextRace ==
  \/ Race_begin
  \/ Delete_users
  \/ Delete_user_sessions
  \/ Delete_furniture_items
  \/ Visual_room_images
  \/ Visual_furniture_items
  \/ Visual_generated_rooms
  \/ Visual_user_sessions
  \/ Race_end

SpecRace == Init /\ [][NextRace]_vars

\* ------------------------------------------------------ visualization page
\* what reading a member that an object does not have gives
JsUndefined == <<"undefined">>

Member(obj, key) == IF key \in DOMAIN obj THEN obj[key] ELSE JsUndefined

\* the data member of the body that POST /api/generate-room-visual answers
\* success with
VisualData(r) == [url |-> r.url, session_id |-> r.session_id]

mockGeneratedImage == <<"images.unsplash.com", "photo-1586023492125-27b2c045efd7">>

\* generateVisualization in test mode: no request is made
generateVisualization_mock ==
  /\ Idle
  /\ \E imageId \in ImageIds, selectedItems \in SUBSET FurnIds \ {{}} :
       last' = [NoResp EXCEPT !.op = "generateVisualization", !.mock = TRUE,
                              !.room_image_id = imageId,
                              !.furniture_ids = selectedItems,
                              !.generatedImage = mockGeneratedImage,
                              !.isGenerating = FALSE]
  /\ UNCHANGED <<rls, user, tables>>

\* generateVisualization outside test mode, from the arrival of the answer of
\* POST /api/generate-room-visual to the end of the function
generateVisualization ==
  /\ last.op = "generate-room-visual"
  /\ last' = IF last.status \in 200..299
               THEN [last EXCEPT !.op = "generateVisualization",
                       !.generatedImage = Member(VisualData(last), "image_url"),
                       !.isGenerating = FALSE]
               ELSE [last EXCEPT !.op = "generateVisualization",
                       !.error = "Failed to generate visualization",
                       !.isGenerating = FALSE]
  /\ UNCHANGED <<rls, user, tables>>

NextPage ==
  \/ POST_generate_room_visual
  \/ generateVisualization
  \/ generateVisualization_mock
  \/ SendResponse

SpecPage == Init /\ [][NextPage]_vars

\* ----------------------------------------------------- client auth functions
Emails == {"a@x", "b@x"}

\* what the browser gets back from fetch('/api/auth/login')
LoginResponses == {"network", "notjson", "error", "nouser", "ok"}

\* what the browser gets back from fetch('/api/auth/signup')
SignupResponses ==
  {"timeout", "network", "notjson", "conflict", "error", "confirm", "ok"}

\* login(email, password): one POST /api/auth/login; setUser on success
login(email, resp) ==
  IF resp = "network"
    THEN [success |-> FALSE, error |-> "An unexpected error occurred during login"]
  ELSE IF resp = "notjson"
    THEN [success |-> FALSE, error |-> "Invalid response from server"]
  ELSE IF resp = "error"
    THEN [success |-> FALSE, error |-> "Login failed"]
  ELSE IF resp = "nouser"
    THEN [success |-> FALSE, error |-> "Login succeeded but user data is missing"]
  ELSE [success |-> TRUE, error |-> ""]

\* the function returns to the page that called it
Return(r, calls, res, newUser) ==
  /\ last' = [r EXCEPT !.calls = calls, !.success = res.success,
                       !.error = res.error]
  /\ user' = newUser
  /\ UNCHANGED <<rls, tables>>

Client_login ==
  /\ Idle
  /\ \E email \in Emails, resp \in LoginResponses :
       LET r == login(email, resp)
       IN  Return([NoResp EXCEPT !.op = "login", !.email = email],
                  <<"POST /api/auth/login">>, r,
                  IF r.success THEN email ELSE user)

\* signup(name, email, password): signs an existing session out, posts to
\* /api/auth/signup and, when no e-mail confirmation is required, logs in;
\* a failed login is followed by a second login
Client_signup ==
  /\ Idle
  /\ \E email \in Emails, hasSession \in BOOLEAN, resp \in SignupResponses :
       LET req == [NoResp EXCEPT !.op = "signup", !.email = email]
           c0 == IF hasSession THEN <<"getSession", "signOut">>
                 ELSE <<"getSession">>
           c1 == c0 \o <<"POST /api/auth/signup">>
           c2 == c1 \o <<"POST /api/auth/login">>
           c3 == c2 \o <<"POST /api/auth/login">>
           fail(msg) == [success |-> FALSE, error |-> msg]
       IN  IF resp = "timeout"
             THEN Return(req, c1,
                         fail("The signup request timed out. Please try again."),
                         user)
           ELSE IF resp = "network"
             THEN Return(req, c1,
                         fail("An unexpected error occurred during signup"), user)
           ELSE IF resp = "notjson"
             THEN Return(req, c1, fail("Invalid response from server"), user)
           ELSE IF resp = "conflict"
             THEN Return(req, c1,
                         fail("This email is already registered. Please log in instead."),
                         user)
           ELSE IF resp = "error"
             THEN Return(req, c1, fail("Signup failed"), user)
           ELSE IF resp = "confirm"
             THEN Return(req, c1, [success |-> TRUE, error |-> ""], user)
           ELSE \E first \in LoginResponses :
                  LET loginResult == login(email, first)
                  IN  IF loginResult.success
                        THEN Return(req, c2, loginResult, email)
                        ELSE \E second \in LoginResponses :
                               LET secondLoginAttempt == login(email, second)
                               IN  IF secondLoginAttempt.success
                                     THEN Return(req, c3, secondLoginAttempt,
                                                 email)
                                     ELSE Return(req, c3,
                                            [success |-> TRUE,
                                             error |-> "Account created but automatic login failed. Please try logging in manually."],
                                            user)

NextAuth ==
  \/ Client_login
  \/ Client_signup
  \/ SendResponse

SpecAuth == Init /\ [][NextAuth]_vars

\* ------------------------------------------------------------- middleware
\* a pathname is the sequence of its segments: /admin/login is <<"admin","login">>
Segments == {"login", "signup", "dashboard", "upload", "admin", "api"}
Pathnames == UNION {[1..n -> Segments] : n \in 0..MaxPathLen}

\* config.matcher: '/login', '/signup', '/dashboard/:path*', '/upload/:path*',
\* '/admin/:path*'
matcher(pathname) ==
  \/ pathname = <<"login">>
  \/ pathname = <<"signup">>
  \/ Len(pathname) >= 1 /\ pathname[1] \in {"dashboard", "upload", "admin"}

\* the authentication code that the testing bypass comments out
middleware_Original(pathname, session) ==
  LET isAuthRoute == Len(pathname) >= 1
                     /\ pathname[1] \in {"dashboard", "upload", "admin"}
      isLoginPage == pathname = <<"login">> \/ pathname = <<"signup">>
  IN  IF isAuthRoute /\ session = Anon
        THEN [kind |-> "redirect", location |-> <<"login">>]
      ELSE IF isLoginPage /\ session # Anon
        THEN [kind |-> "redirect", location |-> <<"dashboard">>]
      ELSE [kind |-> "next", location |-> pathname]

\* middleware(req) with the testing bypass: the session is never read
middleware(pathname, session) ==
  LET isLoginPage == pathname = <<"login">> \/ pathname = <<"signup">>
  IN  IF isLoginPage
        THEN [kind |-> "redirect", location |-> <<"dashboard">>]
        ELSE [kind |-> "next", location |-> pathname]

\* one request for a page: the middleware runs when the matcher selects the
\* pathname, otherwise the request goes straight to the route
PageRequest(pathname, session, hops) ==
  LET res == IF matcher(pathname) THEN middleware(pathname, session)
             ELSE [kind |-> "next", location |-> pathname]
  IN  /\ last' = [NoResp EXCEPT !.op = "navigate", !.caller = session,
                                !.pathname = pathname,
                                !.matched = matcher(pathname),
                                !.kind = res.kind, !.location = res.location,
                                !.hops = hops]
      /\ UNCHANGED <<rls, user, tables>>

Navigate ==
  /\ Idle
  /\ \E pathname \in Pathnames, session \in Callers :
       PageRequest(pathname, session, 0)

\* the browser follows a redirect response with a request for its location
FollowRedirect ==
  /\ last.op = "navigate"
  /\ last.kind = "redirect"
  /\ last.hops < MaxHops
  /\ PageRequest(last.location, last.caller, last.hops + 1)

NextMiddleware ==
  \/ Navigate
  \/ FollowRedirect
  \/ SendResponse

SpecMiddleware == Init /\ [][NextMiddleware]_vars

\* ------------------------------------------------------------------ claims
AdapterOps == {"completeText", "analyzeImage", "generateImage"}
AdminOps == {"GET admin stats", "GET admin check"}
AuthOps == {"login", "signup"}
WorkflowOps == {"recommend-furniture", "generate-room-visual", "upload-room-image"}
Envelopes == {200, 201, 400, 401, 403, 404, 409, 500}
StorageErrorCodes ==
  {"invalid_file", "upload_failed", "database_error", "not_found",
   "storage_delete_failed", "database_delete_failed", "unexpected_error"}

CatalogWrites == {"POST furniture", "PUT furniture", "DELETE furniture"}
PlacementOps == {"GET placement", "POST placement", "PUT placement"}

\* C1: a visualization request answered with success carries a URL, and a
\* request that names a furniture id which is not in the catalog fails without
\* the image-generation operation being called
C1_UnknownIdFailsBeforeProvider ==
  last.op = "generate-room-visual" =>
    /\ (last.status = 200 => last.url # NullUrl)
    /\ (last.furniture_ids # {} /\ ~last.allExist =>
          last.status # 200 /\ ~last.aiCalled)

\* C2: a recommendation request answered with success carries a non-empty
\* recommendations list, whatever text the provider returned
C2_NeverEmptyRecommendations ==
  last.op = "recommend-furniture" /\ last.status = 200 =>
    last.hasRecs /\ last.recs # <<>>

\* C3: an authenticated caller who does not own the room image of an otherwise
\* valid request, whose image lookup did not fail, gets 403 from both
\* workflows, the provider is not called and nothing is written
C3_NonOwnerGets403 ==
  /\ last.op \in {"recommend-furniture", "generate-room-visual"}
  /\ last.room_image_id # ""
  /\ last.imageOwner \notin {"", last.caller}
  /\ ~last.lookupFailed
  => last.status = 403 /\ ~last.aiCalled /\ last.wrote = {}

\* C4: an admin's DELETE of an item that some design session lists fails with
\* 409 and leaves the item in the catalog
C4_ReferencedItemNotDeleted ==
  /\ last.op = "DELETE furniture"
  /\ last.status \notin {401, 403}
  /\ last.referenced
  => last.status = 409 /\ "furniture_items" \notin last.wrote

\* C5: the catalog changes only on a POST, PUT or DELETE of a caller whose users
\* row has is_admin = true; an unauthenticated caller gets 401, a non-admin or
\* a caller whose admin lookup fails gets 403, and neither changes anything
C5_CatalogWritesNeedAdmin ==
  /\ "furniture_items" \in last.wrote =>
       /\ last.op \in CatalogWrites
       /\ last.caller # Anon
       /\ users[last.caller].is_admin
       /\ ~last.lookupFailed
  /\ last.op \in CatalogWrites /\ last.caller = Anon =>
       last.status = 401 /\ last.wrote = {}
  /\ last.op \in CatalogWrites /\ last.caller # Anon
       /\ (~users[last.caller].is_admin \/ last.lookupFailed) =>
       last.status = 403 /\ last.wrote = {}

C5_Witness ==
  /\ last.op \in CatalogWrites
  /\ last.caller = "u1"
  /\ last.status = 403
  /\ \E it \in furniture_items : it.id = last.target

\* C6: a caller who does not own the design session of the placement rows gets
\* 403 from GET, POST and PUT, is returned no row and changes nothing
C6_NonOwnerGets403 ==
  /\ last.op \in PlacementOps
  /\ last.caller # Anon
  /\ last.sessionOwner \notin {"", last.caller}
  /\ ~last.lookupFailed
  => last.status = 403 /\ last.rows = {} /\ last.wrote = {}

\* C7: a POST carrying a batch of valid placements for a session the caller
\* owns is answered 201 with one inserted row per placement
C7_BatchCreate ==
  /\ last.op = "POST placement"
  /\ last.kind \in {"array", "object"}
  /\ SessionOwner(last.target) = last.caller
  /\ \A i \in 1..Len(last.body) :
       /\ last.body[i].width > 0 /\ last.body[i].height > 0
       /\ \E it \in furniture_items : it.id = last.body[i].furniture_id
  => /\ last.status = 201
     /\ Cardinality(last.rows) = Len(last.body)
     /\ last.rows \subseteq furniture_placement_metadata

\* C8: a create with width = 0 or height = 0 is answered 400 and inserts no
\* row, and every stored placement row has width > 0 and height > 0
C8_ZeroSizeRejected ==
  /\ last.op = "POST placement" /\ last.kind = "single"
       /\ (last.body[4] = 0 \/ last.body[5] = 0) =>
       last.status = 400 /\ last.wrote = {}
  /\ \A p \in furniture_placement_metadata : p.width > 0 /\ p.height > 0

C8_Witness ==
  /\ last.op = "POST placement"
  /\ last.kind = "single"
  /\ last.body[4] = 0
  /\ last.status = 400
  /\ last.caller = "u1"

\* C9: a PUT that repeats the body of the PUT before it leaves the table as the
\* first one left it: the same rows, none added
C9_PutIdempotent ==
  last.op = "PUT placement" /\ last.repeat =>
    furniture_placement_metadata = last.tableAfterFirst

C9_Witness ==
  /\ last.op = "PUT placement"
  /\ last.repeat
  /\ last.status = 200
  /\ \E p \in furniture_placement_metadata :
       p.id = last.target /\ <<p.furniture_id, p.x, p.y, p.width, p.height>> = last.body

\* C10: with the selector set to gemini, generateImage makes the OpenAI
\* image-generation call and returns what that call returns
C10_GeminiDelegatesImageGeneration ==
  last.op = "generate-room-visual" /\ last.aiCalled /\ last.selector = "gemini" =>
    /\ last.endpoint = "openai/images/generations"
    /\ last.threw = openAIService_generateImage(last.http).threw
    /\ last.imageUrl = openAIService_generateImage(last.http).imageUrl
    /\ (last.http = "ok" => ~last.threw /\ last.imageUrl # "")

C10_Witness ==
  /\ last.op = "generate-room-visual"
  /\ last.selector = "gemini"
  /\ last.http = "ok"
  /\ last.status = 200
  /\ last.url # NullUrl

\* C11: when the provider's text cannot be parsed, the fixed fallback list is
\* returned only outside production; in production the response is an error
\* and carries no recommendations
C11_FallbackOnlyOutsideProduction ==
  last.op = "recommend-furniture" /\ last.parsed = "fail" =>
    /\ last.nodeEnv = "production" =>
         last.status = 500 /\ ~last.hasRecs /\ last.recs = <<>>
    /\ last.status = 200 =>
         /\ last.nodeEnv # "production"
         /\ last.hasRecs
         /\ last.recs = MockRecommendations.items

C11_Witness ==
  /\ last.op = "recommend-furniture"
  /\ last.aiCalled
  /\ last.parsed = "fail"
  /\ last.nodeEnv = "production"
  /\ last.status = 500

\* C12: every successful recommend-furniture response comes with one new
\* user_sessions row of the caller holding the room image id, the preferences
\* of the request and an empty selected_furniture_ids
C12_SuccessRecordsSession ==
  last.op = "recommend-furniture" /\ last.status = 200 =>
    /\ "user_sessions" \in last.wrote
    /\ Len(user_sessions) > 0
    /\ user_sessions[Len(user_sessions)].user_id = last.caller
    /\ user_sessions[Len(user_sessions)].uploaded_image_id = last.room_image_id
    /\ user_sessions[Len(user_sessions)].selected_furniture_ids = {}
    /\ user_sessions[Len(user_sessions)].preferences =
         {[budget |-> last.body[1], style |-> last.body[2],
           furniture_types |-> last.body[3]]}

\* C13: in generate-room-visual a failed user_sessions upsert does not fail the
\* request: the response is 200 and carries the public URL of the object that
\* was stored in generated-rooms
C13_UpsertFailureNonFatal ==
  last.op = "generate-room-visual" /\ last.sessionFailed =>
    /\ last.status = 200
    /\ last.url # NullUrl
    /\ \E path \in generated_rooms : last.url = getPublicUrl("generated-rooms", path)
    /\ "generated_rooms" \in last.wrote
    /\ "user_sessions" \notin last.wrote

C13_Witness ==
  /\ last.op = "generate-room-visual"
  /\ last.sessionFailed
  /\ last.status = 200
  /\ last.session_id = 0
  /\ last.url # NullUrl

\* C14: in generate-room-visual a failed image-generation call, or a failed
\* upload of the generated image, gives an error response without URL and no
\* user_sessions row is written
C14_GenerationOrUploadFailure ==
  /\ last.op = "generate-room-visual"
  /\ last.aiCalled
  /\ (last.http # "ok" \/ last.uploadFailed)
  => /\ last.status = 500
     /\ last.url = NullUrl
     /\ "user_sessions" \notin last.wrote

C14_Witness ==
  /\ last.op = "generate-room-visual"
  /\ last.uploadFailed
  /\ last.http = "ok"
  /\ last.status = 500

\* C15: when generate-room-visual succeeds for a user and room image for which
\* a recommendation request already created a session row, that row is the one
\* that now carries the generated image URL and the selected furniture ids
C15_VisualizationUpdatesSession ==
  /\ last.op = "generate-room-visual"
  /\ last.status = 200
  /\ ~last.sessionFailed
  /\ \E i \in 1..Len(user_sessions) :
       /\ user_sessions[i].preferences # {}
       /\ user_sessions[i].user_id = last.caller
       /\ user_sessions[i].uploaded_image_id = last.room_image_id
  => \E i \in 1..Len(user_sessions) :
       /\ user_sessions[i].preferences # {}
       /\ user_sessions[i].user_id = last.caller
       /\ user_sessions[i].uploaded_image_id = last.room_image_id
       /\ user_sessions[i].generated_image_url = last.url
       /\ user_sessions[i].selected_furniture_ids = last.furniture_ids

\* C16: a user_sessions row, when it is created by recommend-furniture or by
\* generate-room-visual, lists in selected_furniture_ids only ids of existing
\* furniture_items rows
C16_SelectedIdsExistAtCreation ==
  /\ last.op \in {"recommend-furniture", "generate-room-visual"}
  /\ "user_sessions" \in last.wrote
  => \A f \in user_sessions[Len(user_sessions)].selected_furniture_ids :
       \E it \in furniture_items : it.id = f

\* C17: a placement row created by POST /api/furniture-placement-metadata
\* references a user session whose generated_image_url is not null
C17_PlacementNeedsGeneratedImage ==
  last.op = "POST placement" /\ last.status = 201 =>
    \A p \in last.rows :
      /\ p.generated_image_id \in 1..Len(user_sessions)
      /\ user_sessions[p.generated_image_id].generated_image_url # NullUrl

\* C18: every furniture_items row has price >= 0, and a create that carried a
\* negative price did not succeed
C18_PriceNonNegative ==
  /\ \A it \in furniture_items : it.price >= 0
  /\ last.op = "POST furniture" /\ last.body # <<>> /\ last.body[1] < 0 =>
       last.status # 201 /\ last.wrote = {}

\* C19: every element of the recommendations returned with a successful
\* recommend-furniture response has price >= 0 and a non-empty name
C19_ReturnedItemsWellFormed ==
  last.op = "recommend-furniture" /\ last.status = 200 =>
    \A i \in 1..Len(last.recs) :
      last.recs[i].price >= 0 /\ last.recs[i].name # ""

\* C20: an adapter operation either fails or returns a result whose text,
\* respectively imageUrl, is present; a network failure, a non-2xx response,
\* malformed JSON and a response without the expected field all fail
C20_AdapterResultOrError ==
  last.op \in AdapterOps =>
    /\ last.threw \/ last.defined
    /\ last.http # "ok" => last.threw

\* C21: on GET /api/admin/stats and GET /api/admin/check an unauthenticated
\* caller gets 401 and an authenticated caller whose users row does not have
\* is_admin = true gets 403
C21_AdminRoutesNeedAdmin ==
  last.op \in AdminOps =>
    /\ last.caller = Anon => last.status = 401
    /\ last.caller # Anon /\ ~last.lookupFailed /\ ~users[last.caller].is_admin =>
         last.status = 403

\* C25: an upload that fails leaves neither the object nor a room_images row,
\* and ends with a StorageError; an upload that succeeds leaves both
C25_UploadCompensated ==
  last.op = "upload-room-image" /\ last.path # "" =>
    /\ last.status = 500 =>
         /\ last.code \in StorageErrorCodes
         /\ last.path \notin room_uploads
         /\ ~\E r \in room_images : r.id = last.path
    /\ last.status = 200 =>
         /\ last.path \in room_uploads
         /\ \E r \in room_images : r.id = last.path /\ r.user_id = last.caller

\* C28: deleteRoomImage ends with the file and the row both gone (it returns
\* true) or both still there (it throws), and deletes nothing when userId
\* does not own the image
C28_DeleteAllOrNothing ==
  last.op = "deleteRoomImage" /\ last.imageOwner # "" /\ last.hadObject =>
    /\ ~last.threw =>
         /\ last.room_image_id \notin room_uploads
         /\ ~\E r \in room_images : r.id = last.room_image_id
    /\ last.threw =>
         /\ last.room_image_id \in room_uploads
         /\ \E r \in room_images : r.id = last.room_image_id
    /\ last.imageOwner # last.caller => last.wrote = {}

C23_BypassSkipsAuthentication ==
  last.op = "navigate" /\ last.matched =>
    /\ last.pathname \in {<<"login">>, <<"signup">>} =>
         last.kind = "redirect" /\ last.location = <<"dashboard">>
    /\ last.pathname \notin {<<"login">>, <<"signup">>} =>
         last.kind = "next" /\ last.location = last.pathname
    /\ ~(last.kind = "redirect" /\ last.location = <<"login">>)

C23_Witness ==
  /\ last.op = "navigate"
  /\ last.matched
  /\ last.caller = Anon
  /\ last.pathname = <<"admin", "login">>
  /\ last.kind = "next"

\* C24: no client auth function issues the same outbound call a second time
\* within one invocation
C24_NoCallIssuedTwice ==
  last.op \in AuthOps =>
    \A i, j \in DOMAIN last.calls : i # j => last.calls[i] # last.calls[j]

\* C29: outside test mode, when POST /api/generate-room-visual has answered
\* success, generateVisualization ends with isGenerating false and
\* generatedImage equal to the URL of the answer
C29_PageShowsReturnedUrl ==
  last.op = "generateVisualization" /\ ~last.mock /\ last.status = 200 =>
    /\ ~last.isGenerating
    /\ last.generatedImage = last.url

\* C27: a recommendation request that is answered with an error leaves
\* user_sessions as it was
C27_ErrorLeavesSessionsUnchanged ==
  last.op = "recommend-furniture" /\ last.status # 200 =>
    "user_sessions" \notin last.wrote

\* C30: a placement PUT answered with success has changed nothing but
\* furniture_id, x, y, width and height of the row the body's id names: every
\* other row is as before, the row keeps its generated_image_id whatever the
\* body carries, and the caller owns the session the stored row belongs to;
\* a PUT answered with an error changes no row
C30_PutChangesOnlyPlacementFields ==
  last.op = "PUT placement" /\ last.kind = "single" =>
    IF last.status = 200
      THEN /\ last.sessionOwner = last.caller
           /\ \A q \in last.before :
                \E p \in furniture_placement_metadata :
                  /\ p.id = q.id
                  /\ p.generated_image_id = q.generated_image_id
                  /\ IF q.id = last.target
                       THEN <<p.furniture_id, p.x, p.y, p.width, p.height>>
                              = last.body
                       ELSE p = q
           /\ Cardinality(furniture_placement_metadata)
                = Cardinality(last.before)
      ELSE furniture_placement_metadata = last.before

C30_Witness ==
  /\ last.op = "PUT placement"
  /\ last.status = 200
  /\ \E p \in furniture_placement_metadata, q \in last.before :
       /\ p.id = last.target
       /\ q.id = last.target
       /\ p.generated_image_id # last.session_id
       /\ <<q.furniture_id, q.x, q.y, q.width, q.height>> # last.body
       /\ <<p.furniture_id, p.x, p.y, p.width, p.height>> = last.body

\* C26: when an admin's DELETE of a furniture item and a visualization request
\* that selects the item have both been answered, with the policies off and no
\* store call of the DELETE failed, it is not the case that the item is gone
\* while the session row the visualization request wrote lists it
C26_NoDanglingSelection ==
  /\ last.op = "race"
  /\ last.delPc = "done"
  /\ last.visPc = "done"
  /\ ~rls
  /\ ~last.lookupFailed
  /\ last.allExist
  => ~ /\ \A it \in furniture_items : it.id # last.target
       /\ \E i \in 1..Len(user_sessions) :
            /\ user_sessions[i].id = last.session_id
            /\ last.target \in user_sessions[i].selected_furniture_ids
====
